---- MODULE Spec2Model ----
(***************************************************************************)
(* met: an interactive viewer that polls a Prometheus endpoint.  The model *)
(* follows the paginated variant of the program (src/unnamed/part_002):    *)
(* the bubbletea model struct is the state, Update's message cases are the *)
(* actions, updateMetrics and its helpers are operators.                   *)
(*                                                                         *)
(* Go strings are sequences of byte codes (so that <, strings.Contains and *)
(* concatenation are computed, not assumed); float64 samples are integers  *)
(* (the program only adds, subtracts and compares them); Go slice          *)
(* positions are 0-based as in the source, list[i+1] is element i.         *)
(*                                                                         *)
(* Spec is the program as main builds it (pageSize 15); SpecWindow is the  *)
(* same program with main's pageSize literal adjusted to SmallPage.        *)
(***************************************************************************)
EXTENDS Integers, Sequences, FiniteSets, TLC

VARIABLES
    metricsList,    \* model.metricsList  []metricData
    metricsIndex,   \* model.metricsIndex map[string]int
    initialized,    \* model.initialized
    err,            \* model.err
    quit,           \* model.quit
    selected,       \* model.selected
    pageStart,      \* model.pageStart
    pageSize,       \* model.pageSize
    includes,       \* model.includes
    excludes,       \* model.excludes
    labelFilters,   \* model.labelFilters
    ticks,          \* tickMsg timers armed and not yet handled
    inFlight,       \* scrapes issued whose metricsMsg is not yet handled
    scenario,       \* which endpoint the program was pointed at
    served,         \* number of successful scrape results handled so far
    lastFamilies,   \* msg.families of the latest successful metricsMsg
    pass,           \* per-sample record of the latest updateMetrics pass
    lastMsg,        \* the message Update handled last, and the selection,
                    \* the window and the list length it was handed; for a
                    \* scrape result, its rank by time of issue among the
                    \* scrapes that were in flight
    labelArgs,      \* cli.Labels
    started,        \* main has reached tea.NewProgram(initialModel).Run()
    gone            \* keys of the series that were removed as stale so far

vars == <<metricsList, metricsIndex, initialized, err, quit, selected,
          pageStart, pageSize, includes, excludes, labelFilters, ticks,
          inFlight, scenario, served, lastFamilies, pass, lastMsg,
          labelArgs, started, gone>>

(***************************************************************************)
(* Bounds of the model.                                                    *)
(***************************************************************************)
\* successful batches served by the one-series endpoint
MaxBatches == 3
\* successful batches served by the two-series and the filter endpoints
PairBatches == 2
\* batches the long-running endpoint serves beyond maxHistory
LongExtra == 2
\* series the many-series endpoint exposes beyond one page of DefaultPageSize
NavExtra == 2
\* successful batches served by the many-series endpoint
NavBatches == 2
\* rows of the window in the build whose pageSize is adjusted
SmallPage == 2
\* successful batches served to the build with the adjusted pageSize
WindowBatches == 3
\* successful batches served by the endpoint that repeats series
DupBatches == 2

(***************************************************************************)
(* Program constants.                                                      *)
(***************************************************************************)
maxHistory == 30
DefaultPageSize == 15

(***************************************************************************)
(* Strings.                                                                *)
(***************************************************************************)
sFoo == <<102, 111, 111>>                    \* "foo"
sBar == <<98, 97, 114>>                      \* "bar"
sBaz == <<98, 97, 122>>                      \* "baz"
sFoobar == sFoo \o sBar                      \* "foobar"
sPath == <<112, 97, 116, 104>>               \* "path"
sA == <<97>>                                 \* "a"
sB == <<98>>                                 \* "b"
sZone == <<122, 111, 110, 101>>              \* "zone"
\* "requests_total"
sRequestsTotal == <<114, 101, 113, 117, 101, 115, 116, 115, 95,
                    116, 111, 116, 97, 108>>
sLBrace == <<123>>                           \* "{"
sRBrace == <<125>>                           \* "}"
sEqQuote == <<61, 34>>                       \* `="`
sQuote == <<34>>                             \* `"`
sSpace == <<32>>                             \* " "
sComma == <<44>>                             \* ","
sEq == <<61>>                                \* "="

\* Go's < on strings: bytewise lexicographic, a proper prefix is smaller.
RECURSIVE StrLess(_, _)
StrLess(a, b) ==
    IF b = <<>> THEN FALSE
    ELSE IF a = <<>> THEN TRUE
    ELSE IF Head(a) # Head(b) THEN Head(a) < Head(b)
    ELSE StrLess(Tail(a), Tail(b))

\* strings.Contains
Contains(s, sub) ==
    \E i \in 0..(Len(s) - Len(sub)) : SubSeq(s, i + 1, i + Len(sub)) = sub

\* strings.Join
RECURSIVE Join(_, _)
Join(parts, sep) ==
    IF parts = <<>> THEN <<>>
    ELSE IF Len(parts) = 1 THEN parts[1]
    ELSE parts[1] \o sep \o Join(Tail(parts), sep)

(***************************************************************************)
(* Parsed input: a family is [name, type, metric], a metric is             *)
(* [label, value], a label pair is [name, value].                          *)
(***************************************************************************)
LabelPair(n, v) == [name |-> n, value |-> v]
Metric(lbls, v) == [label |-> lbls, value |-> v]
Family(n, t, ms) == [name |-> n, type |-> t, metric |-> ms]

MetricTypes == {"COUNTER", "GAUGE", "UNTYPED", "SUMMARY", "HISTOGRAM"}

\* getRawValue: every known kind yields its one scalar, anything else 0.
getRawValue(type, pm) ==
    IF type \in MetricTypes THEN pm.value ELSE 0

(***************************************************************************)
(* renderLabels: sort by label name, render name="value" pairs, join with  *)
(* " " for display and with "," for the key.                               *)
(***************************************************************************)
RECURSIVE InsertLabel(_, _)
InsertLabel(lp, s) ==
    IF s = <<>> THEN <<lp>>
    ELSE IF StrLess(lp.name, Head(s).name) THEN <<lp>> \o s
    ELSE <<Head(s)>> \o InsertLabel(lp, Tail(s))

\* faulty variant: the labels are left in input order
SortLabelsNone(lbls) == lbls

RECURSIVE SortLabels(_)
SortLabels(lbls) ==
    IF lbls = <<>> THEN <<>>
    ELSE InsertLabel(Head(lbls), SortLabels(Tail(lbls)))

RenderPair(lp) == lp.name \o sEqQuote \o lp.value \o sQuote

renderLabels(lbls) ==
    IF Len(lbls) = 0 THEN [display |-> <<>>, key |-> <<>>]
    ELSE LET sorted == SortLabels(lbls)
             parts == [i \in 1..Len(sorted) |-> RenderPair(sorted[i])]
         IN [display |-> Join(parts, sSpace), key |-> Join(parts, sComma)]

SeriesKey(name, lbls) == name \o sLBrace \o renderLabels(lbls).key \o sRBrace

(***************************************************************************)
(* Filters.                                                                *)
(***************************************************************************)
\* faulty variant: a name that matches an include is accepted at once
passNameFiltersIncludeWins(metricName) ==
    IF Len(includes) > 0
    THEN \E i \in 1..Len(includes) : Contains(metricName, includes[i])
    ELSE \A i \in 1..Len(excludes) : ~Contains(metricName, excludes[i])

passNameFilters(metricName) ==
    /\ (Len(includes) > 0 =>
            \E i \in 1..Len(includes) : Contains(metricName, includes[i]))
    /\ \A i \in 1..Len(excludes) : ~Contains(metricName, excludes[i])

\* labelMap[lp.GetName()] = lp.GetValue(): a later pair overwrites an earlier
labelMapHas(lbls, n) == \E i \in 1..Len(lbls) : lbls[i].name = n
labelMapGet(lbls, n) ==
    LET last == CHOOSE i \in 1..Len(lbls) :
                    /\ lbls[i].name = n
                    /\ \A j \in (i + 1)..Len(lbls) : lbls[j].name # n
    IN lbls[last].value

\* faulty variant: one satisfied constraint is enough
passLabelFiltersAny(lbls) ==
    IF Len(labelFilters) = 0 THEN TRUE
    ELSE \E i \in 1..Len(labelFilters) :
            /\ labelMapHas(lbls, labelFilters[i].name)
            /\ labelMapGet(lbls, labelFilters[i].name) = labelFilters[i].value

passLabelFilters(lbls) ==
    IF Len(labelFilters) = 0 THEN TRUE
    ELSE \A i \in 1..Len(labelFilters) :
            /\ labelMapHas(lbls, labelFilters[i].name)
            /\ labelMapGet(lbls, labelFilters[i].name) = labelFilters[i].value

(***************************************************************************)
(* metricData and the reconciliation of one sample.                        *)
(***************************************************************************)
\* faulty variant: a new counter is not seeded with the raw value
NewMetricNoBaseline(key, name, lblStr, type, raw) ==
    LET isCounter == (type = "COUNTER")
    IN [key |-> key, name |-> name, labels |-> lblStr,
        isCounter |-> isCounter,
        prevVal |-> 0,
        accumVal |-> 0,
        gaugeVal |-> IF isCounter THEN 0 ELSE raw,
        history |-> <<>>,
        lastDelta |-> 0,
        lastScrapedVal |-> 0]

\* faulty variant: the new entry's history starts with the raw value
NewMetricSeedsHistory(key, name, lblStr, type, raw) ==
    LET isCounter == (type = "COUNTER")
    IN [key |-> key, name |-> name, labels |-> lblStr,
        isCounter |-> isCounter,
        prevVal |-> IF isCounter THEN raw ELSE 0,
        accumVal |-> 0,
        gaugeVal |-> IF isCounter THEN 0 ELSE raw,
        history |-> <<raw>>,
        lastDelta |-> 0,
        lastScrapedVal |-> IF isCounter THEN raw ELSE 0]

\* the entry built on first sight of a key, before it is appended
NewMetric(key, name, lblStr, type, raw) ==
    LET isCounter == (type = "COUNTER")
    IN [key |-> key, name |-> name, labels |-> lblStr,
        isCounter |-> isCounter,
        prevVal |-> IF isCounter THEN raw ELSE 0,
        accumVal |-> 0,
        gaugeVal |-> IF isCounter THEN 0 ELSE raw,
        history |-> <<>>,
        lastDelta |-> 0,
        lastScrapedVal |-> IF isCounter THEN raw ELSE 0]

\* faulty variant: a reset adds the (negative) diff like any other change
CounterUpdateNoReset(md, raw) ==
    LET diff == raw - md.prevVal
    IN [md EXCEPT !.accumVal = md.accumVal + diff,
                  !.lastDelta = IF diff = 0 THEN md.lastDelta ELSE diff,
                  !.prevVal = raw, !.lastScrapedVal = raw]

\* faulty variant: a zero diff clears lastDelta
CounterUpdateZeroDelta(md, raw) ==
    LET diff == raw - md.prevVal
        acc == IF diff < 0 THEN md.accumVal + raw
               ELSE IF diff > 0 THEN md.accumVal + diff
               ELSE md.accumVal
        delta == IF diff < 0 THEN raw
                 ELSE IF diff > 0 THEN diff
                 ELSE 0
    IN [md EXCEPT !.accumVal = acc, !.lastDelta = delta,
                  !.prevVal = raw, !.lastScrapedVal = raw]

\* faulty variant: a reset turns the entry into a gauge
CounterUpdateDemotes(md, raw) ==
    LET diff == raw - md.prevVal
        acc == IF diff < 0 THEN md.accumVal + raw
               ELSE IF diff > 0 THEN md.accumVal + diff
               ELSE md.accumVal
        delta == IF diff < 0 THEN raw
                 ELSE IF diff > 0 THEN diff
                 ELSE md.lastDelta
    IN [md EXCEPT !.accumVal = acc, !.lastDelta = delta,
                  !.prevVal = raw, !.lastScrapedVal = raw,
                  !.isCounter = (diff >= 0)]

\* the counter branch: a negative diff adds the raw value, a positive diff
\* adds the diff, a zero diff changes neither accumVal nor lastDelta
CounterUpdate(md, raw) ==
    LET diff == raw - md.prevVal
        acc == IF diff < 0 THEN md.accumVal + raw
               ELSE IF diff > 0 THEN md.accumVal + diff
               ELSE md.accumVal
        delta == IF diff < 0 THEN raw
                 ELSE IF diff > 0 THEN diff
                 ELSE md.lastDelta
    IN [md EXCEPT !.accumVal = acc, !.lastDelta = delta,
                  !.prevVal = raw, !.lastScrapedVal = raw]

\* the non-counter branch
GaugeUpdate(md, raw) ==
    [md EXCEPT !.gaugeVal = raw, !.lastDelta = 0, !.lastScrapedVal = raw]

\* faulty variant: the gauge value is graphed for a counter as well
CurValGauge(md) == md.gaugeVal

\* the value that is graphed
CurVal(md) == IF md.isCounter THEN md.accumVal ELSE md.gaugeVal

\* faulty variant: the newest entries are dropped instead of the oldest
AppendHistoryKeepOldest(history, curVal) ==
    LET h == Append(history, curVal)
    IN IF Len(h) > maxHistory THEN SubSeq(h, 1, maxHistory) ELSE h

\* append, then keep the last maxHistory entries
AppendHistory(history, curVal) ==
    LET h == Append(history, curVal)
    IN IF Len(h) > maxHistory
       THEN SubSeq(h, Len(h) - maxHistory + 1, Len(h))
       ELSE h

Reconcile(md, raw) ==
    LET u == IF md.isCounter THEN CounterUpdate(md, raw)
             ELSE GaugeUpdate(md, raw)
    IN [u EXCEPT !.history = AppendHistory(u.history, CurVal(u))]

(***************************************************************************)
(* updateMetrics: the loop over the families and their metrics, then the   *)
(* removal of the series that were not seen.                               *)
(***************************************************************************)
\* the (name, family, metric) triples in the order the two loops visit them
RECURSIVE Samples(_)
Samples(families) ==
    IF families = <<>> THEN <<>>
    ELSE LET mf == Head(families)
         IN [i \in 1..Len(mf.metric) |->
                [name |-> mf.name, type |-> mf.type, pm |-> mf.metric[i]]]
            \o Samples(Tail(families))

\* faulty variant: every key is taken to be at the first position
LookupIndexFirst(index, key) == 0

\* the position the lookup gives for a key that is found
LookupIndex(index, key) == index[key]

\* faulty variant: the position of a new entry is not recorded
IndexPutNone(index, key, idx) == index

\* m.metricsIndex[key] = idx
IndexPut(index, key, idx) == (key :> idx) @@ index

\* metricData{}: the value of the struct with no field set
NoMetric ==
    [key |-> <<>>, name |-> <<>>, labels |-> <<>>, isCounter |-> FALSE,
     prevVal |-> 0, accumVal |-> 0, gaugeVal |-> 0, history |-> <<>>,
     lastDelta |-> 0, lastScrapedVal |-> 0]

\* one iteration of the inner loop on the loop state [list, index, seen, log];
\* the loop stops at a runtime panic, and log keeps, for each sample that
\* passed the filters, the position used and the length of the list then
ProcessSample(st, s) ==
    LET rl == renderLabels(s.pm.label)
        key == s.name \o sLBrace \o rl.key \o sRBrace
        \* renderLabels has sorted pm.Label in place
        lbls == SortLabels(s.pm.label)
    IN IF st.panicked THEN st
       ELSE IF ~passNameFilters(s.name) THEN st
       ELSE IF ~passLabelFilters(lbls) THEN st
       ELSE
        LET raw == getRawValue(s.type, s.pm)
            found == key \in DOMAIN st.index
            list1 == IF found THEN st.list
                     ELSE Append(st.list,
                                 NewMetric(key, s.name, rl.display, s.type, raw))
            idx == IF found THEN LookupIndex(st.index, key) ELSE Len(list1) - 1
            index1 == IF found THEN st.index ELSE IndexPut(st.index, key, idx)
            \* md := m.metricsList[idx] panics when idx is out of range
            inRange == idx \in 0..(Len(list1) - 1)
            md == IF inRange THEN list1[idx + 1] ELSE NoMetric
            md2 == IF inRange THEN Reconcile(md, raw) ELSE NoMetric
        IN [list |-> IF inRange THEN [list1 EXCEPT ![idx + 1] = md2] ELSE list1,
            index |-> index1,
            seen |-> st.seen \cup {key},
            panicked |-> ~inRange,
            log |-> Append(st.log,
                           [key |-> key, type |-> s.type, raw |-> raw,
                            found |-> found, idx |-> idx,
                            len |-> Len(list1),
                            before |-> md, after |-> md2])]

\* (the loop state is bound through a one-element set, so that each
\* iteration's result is computed once and then read as a value)
RECURSIVE ProcessAll(_, _)
ProcessAll(st, samples) ==
    IF samples = <<>> THEN st
    ELSE CHOOSE r \in { ProcessAll(st1, Tail(samples)) :
                            st1 \in {ProcessSample(st, Head(samples))} } : TRUE

\* faulty variant: nothing is removed
RemoveStaleNone(list, seen) == list

\* faulty variant: the kept entries come out in the opposite order
RemoveStaleReversed(list, seen) ==
    LET kept == SelectSeq(list, LAMBDA md : md.key \in seen)
    IN [i \in 1..Len(kept) |-> kept[Len(kept) + 1 - i]]

\* the entries whose key was seen, in their old relative order
RemoveStale(list, seen) == SelectSeq(list, LAMBDA md : md.key \in seen)

\* faulty variant: the position is taken after the entry is appended
BuildIndexAfterAppend(newList) ==
    [k \in {newList[i].key : i \in 1..Len(newList)} |->
        CHOOSE i \in 1..Len(newList) :
            /\ newList[i].key = k
            /\ \A j \in (i + 1)..Len(newList) : newList[j].key # k]

\* newIndex[md.key] = len(newList) as each kept entry is appended
BuildIndex(newList) ==
    [k \in {newList[i].key : i \in 1..Len(newList)} |->
        (CHOOSE i \in 1..Len(newList) :
            /\ newList[i].key = k
            /\ \A j \in (i + 1)..Len(newList) : newList[j].key # k) - 1]

updateMetrics(list, index, families) ==
    CHOOSE r \in
        { LET newList == RemoveStale(st.list, st.seen)
          IN [list |-> newList, index |-> BuildIndex(newList), log |-> st.log,
              panicked |-> st.panicked] :
            st \in {ProcessAll([list |-> list, index |-> index, seen |-> {},
                                panicked |-> FALSE, log |-> <<>>],
                               Samples(families))} } : TRUE

(***************************************************************************)
(* The one-time sort of Update and the page window.                        *)
(***************************************************************************)
MetricLess(x, y) ==
    IF x.name = y.name THEN StrLess(x.labels, y.labels)
    ELSE StrLess(x.name, y.name)

RECURSIVE InsertMetric(_, _)
InsertMetric(x, s) ==
    IF s = <<>> THEN <<x>>
    ELSE IF MetricLess(x, Head(s)) THEN <<x>> \o s
    ELSE <<Head(s)>> \o InsertMetric(x, Tail(s))

\* faulty variant: the list is left in insertion order
SortMetricsNone(list) == list

RECURSIVE SortMetrics(_)
SortMetrics(list) ==
    IF list = <<>> THEN <<>>
    ELSE CHOOSE r \in { InsertMetric(Head(list), rest) :
                            rest \in {SortMetrics(Tail(list))} } : TRUE

\* the index Update keeps beside the list it has just sorted
IndexAfterSort(index, sortedList) == index

\* faulty variant: the selection is left where it was
ClampSelectedNone(sel, len) == sel

\* "if newM.selected >= len(newM.metricsList)"
ClampSelected(sel, len) == IF sel >= len THEN len - 1 ELSE sel

\* faulty variant: a selection after the window becomes the first row
enforcePageBoundsJump(sel, ps, size) ==
    LET pageEnd == ps + size - 1
        ps1 == IF sel < ps THEN sel
               ELSE IF sel > pageEnd THEN sel
               ELSE ps
    IN IF ps1 < 0 THEN 0 ELSE ps1

\* faulty variant: a negative pageStart is not brought back to 0
enforcePageBoundsNoFloor(sel, ps, size) ==
    LET pageEnd == ps + size - 1
    IN IF sel < ps THEN sel
       ELSE IF sel > pageEnd THEN sel - (size - 1)
       ELSE ps

\* enforcePageBounds: the new pageStart
enforcePageBounds(sel, ps, size) ==
    LET pageEnd == ps + size - 1
        ps1 == IF sel < ps THEN sel
               ELSE IF sel > pageEnd THEN sel - (size - 1)
               ELSE ps
    IN IF ps1 < 0 THEN 0 ELSE ps1

(***************************************************************************)
(* The endpoints the program is pointed at.  An endpoint is a template of  *)
(* families (a name, the kinds it may be exposed as, the label sets of its *)
(* series in exposition order) and the raw values its series may take, or  *)
(* a fixed script of batches.  A batch is a sequence of families: the      *)
(* order in which Go iterates over the families map.                       *)
(***************************************************************************)
lblPathA == <<LabelPair(sPath, sA)>>
lblPathB == <<LabelPair(sPath, sB)>>

Template(n, ts, ls) == [name |-> n, types |-> ts, labels |-> ls]

\* the metrics of a family: the chosen label sets, in exposition order
MetricsOf(labels, present, vals) ==
    LET idxs == SelectSeq([i \in 1..Len(labels) |-> i],
                          LAMBDA i : i \in present)
    IN [j \in 1..Len(idxs) |-> Metric(labels[idxs[j]], vals[idxs[j]])]

\* every non-empty family a template can expose
FamilyChoices(t, raws) ==
    { Family(t.name, ty, MetricsOf(t.labels, present, vals)) :
        ty \in t.types,
        present \in (SUBSET (1..Len(t.labels))) \ {{}},
        vals \in [1..Len(t.labels) -> raws] }

Reverse(s) == [i \in 1..Len(s) |-> s[Len(s) + 1 - i]]

\* Each batch carries a key at most once (one sample per label combination
\* per scrape), and no two series of one family render the same label string,
\* so the result of sort.Slice does not depend on its (unstable) algorithm.
\* every batch of the templates ts: any subset of the families, each in one
\* of its choices, iterated in template order or in the opposite order
BatchesFrom(ts, raws) ==
    UNION { LET all == UNION {FamilyChoices(ts[i], raws) : i \in S}
                order == SelectSeq([i \in 1..Len(ts) |-> i],
                                   LAMBDA i : i \in S)
            IN UNION { { [j \in 1..Len(order) |-> f[order[j]]],
                         Reverse([j \in 1..Len(order) |-> f[order[j]]]) } :
                       f \in { g \in [S -> all] :
                                 \A i \in S :
                                    g[i] \in FamilyChoices(ts[i], raws) } }
            : S \in SUBSET (1..Len(ts)) }

SingleTemplates ==
    << Template(sFoo, {"COUNTER", "GAUGE", "HISTOGRAM"}, <<lblPathA>>) >>
SingleRaws == {-1, 1, 2}
SingleBatches == BatchesFrom(SingleTemplates, SingleRaws)

\* the exposition lists path="b" before path="a"
PairTemplates ==
    << Template(sFoo, {"COUNTER", "GAUGE"}, <<lblPathB, lblPathA>>) >>
PairRaws == {1, 2}
PairBatchSet == BatchesFrom(PairTemplates, PairRaws)

\* bar{zone="b",path="a"} is exposed with its labels out of name order
lblZoneBPathA == <<LabelPair(sZone, sB), LabelPair(sPath, sA)>>

FilterTemplates ==
    << Template(sFoo, {"GAUGE"}, <<lblPathA>>),
       Template(sFoobar, {"GAUGE"}, << <<>> >>),
       Template(sBaz, {"GAUGE"}, <<lblPathB>>),
       Template(sBar, {"GAUGE"}, <<lblZoneBPathA>>) >>
FilterRaws == {1}
FilterBatches == BatchesFrom(FilterTemplates, FilterRaws)

OneSeries(name, type, raw) == << Family(name, type, <<Metric(lblPathA, raw)>>) >>

Script(sc) ==
    CASE sc = "exCounter" ->
            [i \in 1..4 |-> OneSeries(sFoo, "COUNTER", <<10, 15, 4, 9>>[i])]
      [] sc = "exGauge" ->
            [i \in 1..3 |-> OneSeries(sFoo, "GAUGE", <<3, 7, 2>>[i])]
      [] sc = "exRequests" ->
            [i \in 1..2 |-> OneSeries(sRequestsTotal, "COUNTER", <<100, 130>>[i])]
      [] sc = "long" ->
            [i \in 1..(maxHistory + LongExtra) |-> OneSeries(sFoo, "COUNTER", i)]
      \* foo{path="a"} and bar{path="a"} are exposed twice, then missing from
      \* one scrape, then exposed again, ahead of the series that stayed
      [] sc = "churn" ->
            << << Family(sFoo, "COUNTER", <<Metric(lblPathB, 5),
                                            Metric(lblPathA, 7)>>),
                  Family(sBar, "GAUGE", <<Metric(lblPathA, 3)>>) >>,
               << Family(sFoo, "COUNTER", <<Metric(lblPathB, 6),
                                            Metric(lblPathA, 9)>>),
                  Family(sBar, "GAUGE", <<Metric(lblPathA, 5)>>) >>,
               << Family(sFoo, "COUNTER", <<Metric(lblPathB, 7)>>) >>,
               << Family(sFoo, "COUNTER", <<Metric(lblPathA, 4),
                                            Metric(lblPathB, 9)>>),
                  Family(sBar, "GAUGE", <<Metric(lblPathA, 8)>>) >> >>

\* the label set path="a", path="b", ... of the i-th series of an endpoint
\* with many series (97 is "a")
lblPathNth(i) == <<LabelPair(sPath, <<96 + i>>)>>

\* the batch that exposes the first n of those series as gauges of value 1,
\* in label order; no family at all when n = 0
FirstSeries(n) ==
    IF n = 0 THEN <<>>
    ELSE << Family(sFoo, "GAUGE",
                   [i \in 1..n |-> Metric(lblPathNth(i), 1)]) >>

\* more series than one page holds, or five of them
NavSeries == DefaultPageSize + NavExtra
NavBatchSet == {FirstSeries(NavSeries), FirstSeries(5)}

\* five series, the first three of them, or none
WindowBatchSet == {FirstSeries(5), FirstSeries(3), FirstSeries(0)}

\* the same label set as lblZoneBPathA, written in the other order
lblPathAZoneB == <<LabelPair(sPath, sA), LabelPair(sZone, sB)>>

\* the lines of an exposition that repeats series: the text parser appends
\* one metric per line, whether or not the label set was seen before
DupSamples ==
    { Metric(lblPathB, 1), Metric(lblPathA, 1),
      Metric(lblZoneBPathA, 1), Metric(lblPathAZoneB, 2) }

\* a counter family of two lines, any two of them
DupBatchSet ==
    { << Family(sFoo, "COUNTER", <<x, y>>) >> : x \in DupSamples,
                                                y \in DupSamples }

\* http.DefaultClient.Do returns, with a response or with an error, unless
\* the endpoint accepts the connection and never answers: the request has
\* context.Background() and the client has no Timeout
Answers(sc) == sc # "hung"

Scripted == {"exCounter", "exGauge", "exRequests", "long", "churn"}
Scenarios == {"single", "pair", "filter", "nav"} \cup Scripted

\* how many successful batches the endpoint serves
ScenarioLen(sc) ==
    CASE sc = "single" -> MaxBatches
      [] sc \in {"pair", "filter"} -> PairBatches
      [] sc = "nav" -> NavBatches
      [] sc = "window" -> WindowBatches
      [] sc = "dup" -> DupBatches
      [] sc = "hung" -> 0
      [] OTHER -> Len(Script(sc))

\* the batches the endpoint may answer with, n successful batches served
ScenarioBatches(sc, n) ==
    CASE sc = "single" -> SingleBatches
      [] sc = "pair" -> PairBatchSet
      [] sc = "filter" -> FilterBatches
      [] sc = "nav" -> NavBatchSet
      [] sc = "window" -> WindowBatchSet
      [] sc = "dup" -> DupBatchSet
      [] sc = "hung" -> {}
      [] OTHER -> {Script(sc)[n + 1]}

\* the command line: --include, --exclude, --labels, and the pageSize literal
Config(inc, exc, lf, ps) ==
    [includes |-> inc, excludes |-> exc, labels |-> lf, pageSize |-> ps]

\* faulty variant: an argument without "=" is not refused
LabelArgsOkAlways(args) == TRUE

\* strings.SplitN(lf, "=", 2) gives two parts iff lf has a "="
LabelArgsOk(args) ==
    \A i \in 1..Len(args) : \E k \in 1..Len(args[i]) : args[i][k] = sEq[1]

\* labelFilter{parts[0], parts[1]}: the text before the first "=" and the
\* text after it; an argument without "=" has no second part
ParseLabel(arg) ==
    IF \E k \in 1..Len(arg) : arg[k] = sEq[1]
    THEN LET at == CHOOSE k \in 1..Len(arg) :
                        /\ arg[k] = sEq[1]
                        /\ \A j \in 1..(k - 1) : arg[j] # sEq[1]
         IN LabelPair(SubSeq(arg, 1, at - 1), SubSeq(arg, at + 1, Len(arg)))
    ELSE LabelPair(arg, <<>>)

ParseLabels(args) == [i \in 1..Len(args) |-> ParseLabel(args[i])]

argPathA == sPath \o sEq \o sA                \* "path=a"
argPathB == sPath \o sEq \o sB                \* "path=b"
argZoneB == sZone \o sEq \o sB                \* "zone=b"

NoFilters == Config(<<>>, <<>>, <<>>, DefaultPageSize)

\* the command lines the program is started with
ScenarioConfigs(sc) ==
    IF sc = "filter"
    THEN { Config(<<sFoo>>, <<sBar>>, <<>>, DefaultPageSize),
           Config(<<>>, <<sBar>>, <<>>, DefaultPageSize),
           Config(<<>>, <<>>, <<argPathA>>, DefaultPageSize),
           Config(<<sBar, sBaz>>, <<>>, <<argPathB>>, DefaultPageSize),
           Config(<<>>, <<>>, <<argPathA, argZoneB>>, DefaultPageSize),
           \* --labels path=a,zone and --labels path
           Config(<<>>, <<>>, <<argPathA, sZone>>, DefaultPageSize),
           Config(<<>>, <<>>, <<sPath>>, DefaultPageSize) }
    ELSE {NoFilters}

(***************************************************************************)
(* The program: main builds the model, Init starts one scrape and one      *)
(* timer, Update handles one message at a time.                            *)
(***************************************************************************)
\* main parses --labels and stops with log.Fatalf at an argument without
\* "="; otherwise it builds the model and runs it, and model.Init starts one
\* scrape and one timer
Init ==
    /\ scenario \in Scenarios
    /\ \E c \in ScenarioConfigs(scenario) :
        /\ includes = c.includes
        /\ excludes = c.excludes
        /\ labelArgs = c.labels
        /\ started = LabelArgsOk(c.labels)
        /\ labelFilters = IF LabelArgsOk(c.labels) THEN ParseLabels(c.labels)
                          ELSE <<>>
        /\ pageSize = c.pageSize
        /\ ticks = IF LabelArgsOk(c.labels) THEN 1 ELSE 0
        /\ inFlight = IF LabelArgsOk(c.labels) THEN 1 ELSE 0
    /\ metricsList = <<>>
    /\ metricsIndex = <<>>
    /\ initialized = FALSE
    /\ err = "nil"
    /\ quit = FALSE
    /\ selected = 0
    /\ pageStart = 0
    /\ served = 0
    /\ lastFamilies = <<>>
    /\ pass = <<>>
    /\ gone = {}
    /\ lastMsg = [kind |-> "none", selected |-> 0, pageStart |-> 0, len |-> 0,
                  flight |-> 0]

\* the build in which main's "pageSize: 15, // you can adjust this as needed"
\* is adjusted to SmallPage, pointed at the five-series endpoint
InitWindow ==
    /\ scenario = "window"
    /\ includes = <<>>
    /\ excludes = <<>>
    /\ labelFilters = <<>>
    /\ labelArgs = <<>>
    /\ started = TRUE
    /\ pageSize = SmallPage
    /\ metricsList = <<>>
    /\ metricsIndex = <<>>
    /\ initialized = FALSE
    /\ err = "nil"
    /\ quit = FALSE
    /\ selected = 0
    /\ pageStart = 0
    /\ ticks = 1
    /\ inFlight = 1
    /\ served = 0
    /\ lastFamilies = <<>>
    /\ pass = <<>>
    /\ gone = {}
    /\ lastMsg = [kind |-> "none", selected |-> 0, pageStart |-> 0, len |-> 0,
                  flight |-> 0]

\* the program pointed at the endpoint that repeats series
InitDup ==
    /\ scenario = "dup"
    /\ includes = <<>>
    /\ excludes = <<>>
    /\ labelFilters = <<>>
    /\ labelArgs = <<>>
    /\ started = TRUE
    /\ pageSize = DefaultPageSize
    /\ metricsList = <<>>
    /\ metricsIndex = <<>>
    /\ initialized = FALSE
    /\ err = "nil"
    /\ quit = FALSE
    /\ selected = 0
    /\ pageStart = 0
    /\ ticks = 1
    /\ inFlight = 1
    /\ served = 0
    /\ lastFamilies = <<>>
    /\ pass = <<>>
    /\ gone = {}
    /\ lastMsg = [kind |-> "none", selected |-> 0, pageStart |-> 0, len |-> 0,
                  flight |-> 0]

\* the program pointed at an endpoint that never answers, or at one of two
\* that always answer
InitLive ==
    /\ scenario \in {"hung", "exGauge", "exRequests"}
    /\ includes = <<>>
    /\ excludes = <<>>
    /\ labelFilters = <<>>
    /\ labelArgs = <<>>
    /\ started = TRUE
    /\ pageSize = DefaultPageSize
    /\ metricsList = <<>>
    /\ metricsIndex = <<>>
    /\ initialized = FALSE
    /\ err = "nil"
    /\ quit = FALSE
    /\ selected = 0
    /\ pageStart = 0
    /\ ticks = 1
    /\ inFlight = 1
    /\ served = 0
    /\ lastFamilies = <<>>
    /\ pass = <<>>
    /\ gone = {}
    /\ lastMsg = [kind |-> "none", selected |-> 0, pageStart |-> 0, len |-> 0,
                  flight |-> 0]

config == <<pageSize, includes, excludes, labelFilters, scenario,
            labelArgs, started>>
series == <<metricsList, metricsIndex, initialized, lastFamilies, pass, served,
            gone>>

\* View: what the screen shows, by the branch that renders it
View ==
    IF quit THEN "blank"
    ELSE IF err # "nil" THEN "error"
    ELSE IF Len(metricsList) = 0 THEN "waiting"
    ELSE "table"

\* renderTablePage: the rows [start, end) it renders; its footer prints
\* start+1, end and len(metricsList)
PageSlice ==
    [start |-> pageStart,
     end |-> IF pageStart + pageSize > Len(metricsList) THEN Len(metricsList)
             ELSE pageStart + pageSize]

\* the message Update is called with, beside the receiver's fields
Handled(kind) ==
    [kind |-> kind, selected |-> selected, pageStart |-> pageStart,
     len |-> Len(metricsList), flight |-> 0]

\* a scrape result: the goroutines of the scrapes in flight finish in any
\* order, so the result is that of any of them
Delivered(kind) ==
    \E rank \in 1..inFlight : lastMsg' = [Handled(kind) EXCEPT !.flight = rank]

\* faulty variant: the tick also arms the next timer
TickRearms ==
    /\ started
    /\ ~quit
    /\ ticks > 0
    /\ inFlight < 3
    /\ ticks' = ticks
    /\ inFlight' = inFlight + 1
    /\ lastMsg' = Handled("tick")
    /\ UNCHANGED <<series, config, err, quit, selected, pageStart>>

\* case tickMsg: issue a scrape
Tick ==
    /\ started
    /\ ~quit
    /\ ticks > 0
    /\ ticks' = ticks - 1
    /\ inFlight' = inFlight + 1
    /\ lastMsg' = Handled("tick")
    /\ UNCHANGED <<series, config, err, quit, selected, pageStart>>

\* faulty variant: a failed scrape moves the selection back to the first row
MetricsErrResetsSelection ==
    /\ started
    /\ ~quit
    /\ inFlight > 0
    /\ Answers(scenario)
    /\ err' = "error"
    /\ inFlight' = inFlight - 1
    /\ ticks' = ticks + 1
    /\ Delivered("err")
    /\ selected' = 0
    /\ pageStart' = 0
    /\ UNCHANGED <<series, config, quit>>

\* case metricsMsg with msg.err != nil
MetricsErr ==
    /\ started
    /\ ~quit
    /\ inFlight > 0
    /\ Answers(scenario)
    /\ err' = "error"
    /\ inFlight' = inFlight - 1
    /\ ticks' = ticks + 1
    /\ Delivered("err")
    /\ UNCHANGED <<series, config, quit, selected, pageStart>>

\* the keys removed as stale so far: those removed before and those of the
\* old list that this pass did not copy into newList
StaleKeys(out, old, new) ==
    LET newKeys == {new[i].key : i \in 1..Len(new)}
    IN out \cup ({old[i].key : i \in 1..Len(old)} \ newKeys)

\* faulty variant: a parsed batch clears the recorded error
MetricsOkClearsErr(families) ==
    /\ started
    /\ ~quit
    /\ inFlight > 0
    /\ \E newM \in {updateMetrics(metricsList, metricsIndex, families)} :
       \E list \in {IF ~initialized THEN SortMetrics(newM.list)
                     ELSE newM.list} :
       LET index == IF ~initialized THEN IndexAfterSort(newM.index, list)
                    ELSE newM.index
           sel == ClampSelected(selected, Len(list))
       IN /\ metricsList' = list
          /\ metricsIndex' = index
          /\ initialized' = TRUE
          /\ selected' = sel
          /\ pageStart' = enforcePageBounds(sel, pageStart, pageSize)
          /\ pass' = newM.log
          /\ gone' = StaleKeys(gone, metricsList, list)
          \* a runtime panic ends the program
          /\ quit' = newM.panicked
    /\ lastFamilies' = families
    /\ served' = served + 1
    /\ inFlight' = inFlight - 1
    /\ ticks' = ticks + 1
    /\ Delivered("ok")
    /\ err' = "nil"
    /\ UNCHANGED config

\* case metricsMsg with a parsed batch
MetricsOk(families) ==
    /\ started
    /\ ~quit
    /\ inFlight > 0
    /\ \E newM \in {updateMetrics(metricsList, metricsIndex, families)} :
       \E list \in {IF ~initialized THEN SortMetrics(newM.list)
                     ELSE newM.list} :
       LET index == IF ~initialized THEN IndexAfterSort(newM.index, list)
                    ELSE newM.index
           sel == ClampSelected(selected, Len(list))
       IN /\ metricsList' = list
          /\ metricsIndex' = index
          /\ initialized' = TRUE
          /\ selected' = sel
          /\ pageStart' = enforcePageBounds(sel, pageStart, pageSize)
          /\ pass' = newM.log
          /\ gone' = StaleKeys(gone, metricsList, list)
          \* a runtime panic ends the program
          /\ quit' = newM.panicked
    /\ lastFamilies' = families
    /\ served' = served + 1
    /\ inFlight' = inFlight - 1
    /\ ticks' = ticks + 1
    /\ Delivered("ok")
    /\ UNCHANGED <<config, err>>

Scrape ==
    /\ served < ScenarioLen(scenario)
    /\ \E families \in ScenarioBatches(scenario, served) : MetricsOk(families)

\* case tea.KeyMsg
KeyQuit ==
    /\ started
    /\ ~quit
    /\ quit' = TRUE
    /\ lastMsg' = Handled("quit")
    /\ UNCHANGED <<series, config, err, selected, pageStart, ticks, inFlight>>

KeyUp ==
    /\ started
    /\ ~quit
    /\ IF selected > 0
       THEN /\ selected' = selected - 1
            /\ pageStart' = enforcePageBounds(selected - 1, pageStart, pageSize)
       ELSE UNCHANGED <<selected, pageStart>>
    /\ lastMsg' = Handled("up")
    /\ UNCHANGED <<series, config, err, quit, ticks, inFlight>>

KeyDown ==
    /\ started
    /\ ~quit
    /\ IF selected < Len(metricsList) - 1
       THEN /\ selected' = selected + 1
            /\ pageStart' = enforcePageBounds(selected + 1, pageStart, pageSize)
       ELSE UNCHANGED <<selected, pageStart>>
    /\ lastMsg' = Handled("down")
    /\ UNCHANGED <<series, config, err, quit, ticks, inFlight>>

KeyPgUp ==
    /\ started
    /\ ~quit
    /\ LET ps == IF pageStart - pageSize < 0 THEN 0 ELSE pageStart - pageSize
       IN /\ pageStart' = ps
          /\ selected' = IF selected < ps THEN ps ELSE selected
    /\ lastMsg' = Handled("pgup")
    /\ UNCHANGED <<series, config, err, quit, ticks, inFlight>>

\* faulty variant: pageStart is not held at maxStart
KeyPgDnNoClamp ==
    /\ started
    /\ ~quit
    /\ LET ps == pageStart + pageSize
           pageEnd == ps + pageSize - 1
       IN /\ pageStart' = ps
          /\ selected' = IF selected > pageEnd THEN pageEnd ELSE selected
    /\ lastMsg' = Handled("pgdn")
    /\ UNCHANGED <<series, config, err, quit, ticks, inFlight>>

KeyPgDn ==
    /\ started
    /\ ~quit
    /\ LET maxStart == IF Len(metricsList) - pageSize < 0 THEN 0
                       ELSE Len(metricsList) - pageSize
           ps == IF pageStart + pageSize > maxStart THEN maxStart
                 ELSE pageStart + pageSize
           pageEnd == ps + pageSize - 1
       IN /\ pageStart' = ps
          /\ selected' = IF selected > pageEnd THEN pageEnd ELSE selected
    /\ lastMsg' = Handled("pgdn")
    /\ UNCHANGED <<series, config, err, quit, ticks, inFlight>>

\* faulty variant: a key without a binding empties the list
KeyOtherDropsSeries ==
    /\ started
    /\ ~quit
    /\ lastMsg' = Handled("key")
    /\ metricsList' = <<>>
    /\ metricsIndex' = <<>>
    /\ UNCHANGED <<initialized, lastFamilies, pass, served, gone, config, err,
                   quit,
                   selected, pageStart, ticks, inFlight>>

\* any other key: no case of the switch matches
KeyOther ==
    /\ started
    /\ ~quit
    /\ lastMsg' = Handled("key")
    /\ UNCHANGED <<series, config, err, quit, selected, pageStart, ticks,
                   inFlight>>

Next ==
    \/ Tick
    \/ Scrape
    \/ MetricsErr
    \/ KeyQuit
    \/ KeyUp
    \/ KeyDown
    \/ KeyPgUp
    \/ KeyPgDn
    \/ KeyOther

Spec == Init /\ [][Next]_vars

\* the same program built with the adjusted pageSize
SpecWindow == InitWindow /\ [][Next]_vars

\* the program pointed at the endpoint that repeats series
SpecDup == InitDup /\ [][Next]_vars

\* the runs in which the runtime does its part: a timer that is armed fires
\* and its tickMsg is handled, and the result of a scrape that the endpoint
\* answers is handled; the user need not press a key
SpecLive ==
    /\ InitLive
    /\ [][Next]_vars
    /\ WF_vars(Tick)
    /\ WF_vars(Scrape \/ MetricsErr)

(***************************************************************************)
(* Properties.                                                             *)
(***************************************************************************)
Entries == {metricsList[i] : i \in 1..Len(metricsList)}
ListKeys == {md.key : md \in Entries}
PassRecs == {pass[j] : j \in 1..Len(pass)}

\* C1: the list and the key->index lookup agree in every state: each
\* position i holds the entry whose key the lookup maps to i, and the lookup
\* has no key that is not in the list.
C1_IndexConsistent ==
    /\ \A i \in 1..Len(metricsList) :
        /\ metricsList[i].key \in DOMAIN metricsIndex
        /\ metricsIndex[metricsList[i].key] = i - 1
    /\ DOMAIN metricsIndex \subseteq ListKeys

\* C2: every sample of a batch is reconciled against the stored entry of its
\* own key, so after the batch the entry of a key shows that key's raw value;
\* requests_total{path="a"} scraped as 100 then 130 shows delta 30, total 30.
C2_OwnState ==
    /\ \A r \in PassRecs : r.before.key = r.key
    /\ \A r \in PassRecs : \A md \in Entries :
        md.key = r.key => md.lastScrapedVal = r.raw
    /\ (scenario = "exRequests" /\ served = 2) =>
        \A md \in Entries : md.lastDelta = 30 /\ md.accumVal = 30

\* C3: a counter entry that existed before the sample is updated by the
\* diff = raw - prevVal: a positive diff is added and becomes lastDelta, a
\* negative diff adds raw and makes raw the lastDelta, and prevVal and
\* lastScrapedVal become raw in every case; the raw values 10, 15, 4, 9 of
\* one counter give the totals 0, 5, 9, 14.
C3_CounterUpdate ==
    /\ \A r \in PassRecs :
        (r.found /\ r.before.isCounter) =>
            LET diff == r.raw - r.before.prevVal
            IN /\ diff > 0 => /\ r.after.accumVal = r.before.accumVal + diff
                              /\ r.after.lastDelta = diff
               /\ diff < 0 => /\ r.after.accumVal = r.before.accumVal + r.raw
                              /\ r.after.lastDelta = r.raw
               /\ r.after.prevVal = r.raw
               /\ r.after.lastScrapedVal = r.raw
    /\ (scenario = "exCounter" /\ served > 0) =>
        /\ Len(metricsList) = 1
        /\ metricsList[1].history = SubSeq(<<0, 5, 9, 14>>, 1, served)
        /\ metricsList[1].accumVal = <<0, 5, 9, 14>>[served]

C3_Witness ==
    /\ scenario = "exCounter"
    /\ served = 4
    /\ \E r \in PassRecs : r.found /\ r.before.isCounter /\ r.raw > r.before.prevVal
    /\ metricsList[1].history = <<0, 5, 9, 14>>

C5_AccumMonotone ==
    \A r \in PassRecs :
        r.before.isCounter => r.after.accumVal >= r.before.accumVal

\* C6 as stated: a sample whose raw value equals prevVal leaves the total of
\* an existing counter unchanged and sets its lastDelta to 0.
C6_ZeroDiffResetsDelta ==
    \A r \in PassRecs :
        (r.found /\ r.before.isCounter /\ r.raw = r.before.prevVal) =>
            /\ r.after.accumVal = r.before.accumVal
            /\ r.after.lastDelta = 0

\* C6 amended: a sample whose raw value equals prevVal leaves both the total
\* and the lastDelta of an existing counter as they were.
C6_ZeroDiffKeepsDelta ==
    \A r \in PassRecs :
        (r.found /\ r.before.isCounter /\ r.raw = r.before.prevVal) =>
            /\ r.after.accumVal = r.before.accumVal
            /\ r.after.lastDelta = r.before.lastDelta

C6_Witness ==
    \E r \in PassRecs :
        /\ r.found
        /\ r.before.isCounter
        /\ r.raw = r.before.prevVal
        /\ r.before.lastDelta # 0
        /\ r.after.lastDelta = r.before.lastDelta

\* C7: after a batch a non-counter entry shows the raw value that batch has
\* for its key, as gaugeVal and as lastScrapedVal, with total 0 and delta 0;
\* the raw values 3, 7, 2 of one gauge are displayed as 3, 7, 2.
C7_GaugePassthrough ==
    /\ \A md \in Entries :
        ~md.isCounter =>
            /\ md.accumVal = 0
            /\ md.lastDelta = 0
            /\ \A r \in PassRecs :
                r.key = md.key => /\ md.gaugeVal = r.raw
                                  /\ md.lastScrapedVal = r.raw
    /\ (scenario = "exGauge" /\ served > 0) =>
        /\ Len(metricsList) = 1
        /\ metricsList[1].history = SubSeq(<<3, 7, 2>>, 1, served)

\* C8: no history is longer than maxHistory; a sample applied to an entry
\* whose history is full drops the oldest value, keeps the others in order
\* and puts the new value last.
C8_HistoryBound ==
    /\ \A md \in Entries : Len(md.history) <= maxHistory
    /\ \A r \in PassRecs :
        /\ Len(r.after.history) <= maxHistory
        /\ Len(r.before.history) = maxHistory =>
            r.after.history = Append(Tail(r.before.history),
                                     IF r.after.isCounter THEN r.after.accumVal
                                     ELSE r.after.gaugeVal)
        /\ Len(r.before.history) < maxHistory =>
            r.after.history = Append(r.before.history,
                                     IF r.after.isCounter THEN r.after.accumVal
                                     ELSE r.after.gaugeVal)

C8_Witness ==
    \E r \in PassRecs :
        /\ Len(r.before.history) = maxHistory
        /\ Len(r.after.history) = maxHistory
        /\ r.before.history[1] # r.after.history[1]
        /\ \E md \in Entries : md.history = r.after.history

\* the keys of the samples of the latest batch that pass both filters
FilteredKeys ==
    UNION { { SeriesKey(f.name, f.metric[j].label) :
                j \in { k \in 1..Len(f.metric) :
                          /\ passNameFilters(f.name)
                          /\ passLabelFilters(f.metric[k].label) } } :
            f \in {lastFamilies[i] : i \in 1..Len(lastFamilies)} }

BatchKeys ==
    UNION { { SeriesKey(f.name, f.metric[j].label) : j \in 1..Len(f.metric) } :
            f \in {lastFamilies[i] : i \in 1..Len(lastFamilies)} }

\* C9: after a successful batch the keys of the list, and the keys of the
\* lookup, are exactly the keys of the samples of that batch that pass the
\* name filter and the label filter; without filters, every key of the batch.
C9_OnlyFilteredBatch ==
    served > 0 =>
        /\ ListKeys = FilteredKeys
        /\ DOMAIN metricsIndex = FilteredKeys
        /\ (Len(includes) = 0 /\ Len(excludes) = 0 /\ Len(labelFilters) = 0) =>
                ListKeys = BatchKeys

\* a second batch under a filter that rejects part of it: a sample found at
\* position 1 shows the list had two entries, and only one is left
C9_Witness ==
    /\ served = 2
    /\ FilteredKeys # BatchKeys
    /\ Len(metricsList) = 1
    /\ \E r \in PassRecs : r.found /\ r.idx >= 1

\* C10: whenever the list is not empty the selected index is a position of
\* the list.
C10_SelectedInRange ==
    Len(metricsList) > 0 => (0 <= selected /\ selected <= Len(metricsList) - 1)

\* C11: whenever the list is not empty the visible window holds the selected
\* index: pageStart <= selected <= pageStart + pageSize - 1.
C11_WindowHoldsSelected ==
    Len(metricsList) > 0 =>
        (pageStart <= selected /\ selected <= pageStart + pageSize - 1)

\* the selected index the claim asks for after a page event: the index as it
\* was if the new window holds it, else the nearest boundary of the window
Snapped(sel, ps) ==
    IF sel < ps THEN ps
    ELSE IF sel > ps + pageSize - 1 THEN ps + pageSize - 1
    ELSE sel

\* C12: after a page-up or a page-down event a selected index that fell
\* outside the new window sits on the nearest boundary of that window:
\* pageStart if it was below, pageStart + pageSize - 1 if it was above.
C12_PageSnaps ==
    lastMsg.kind \in {"pgup", "pgdn"} =>
        selected = Snapped(lastMsg.selected, pageStart)

Max(a, b) == IF a >= b THEN a ELSE b
Min(a, b) == IF a <= b THEN a ELSE b

\* C13: a page-up event sets pageStart to max(0, pageStart - pageSize), a
\* page-down event sets it to min(pageStart + pageSize,
\* max(0, length - pageSize)), and after either event pageStart lies in
\* [0, max(0, length - pageSize)].
C13_PageStart ==
    LET maxStart == Max(0, Len(metricsList) - pageSize)
    IN /\ lastMsg.kind = "pgup" =>
            pageStart = Max(0, lastMsg.pageStart - pageSize)
       /\ lastMsg.kind = "pgdn" =>
            pageStart = Min(lastMsg.pageStart + pageSize, maxStart)
       /\ lastMsg.kind \in {"pgup", "pgdn"} =>
            (0 <= pageStart /\ pageStart <= maxStart)

\* a page-down from the window [2,3] of five rows stops at the last full
\* window [3,4]
C13_Witness ==
    /\ lastMsg.kind = "pgdn"
    /\ Len(metricsList) = 5
    /\ pageSize = 2
    /\ lastMsg.pageStart = 2
    /\ pageStart = 3

\* C14: an up or down event that moves the selection out of the window
\* slides the window by the least amount that holds it again: pageStart
\* becomes selected if the selection is now before the window, and
\* selected - (pageSize - 1) if it is now after it; pageStart is unchanged
\* if the new selection is inside the window.  With pageSize = 2 and five
\* rows, a down event that moves the selection to 4 leaves pageStart = 3.
C14_MinimalSlide ==
    /\ lastMsg.kind \in {"up", "down"} =>
        LET ps0 == lastMsg.pageStart
            moved == selected # lastMsg.selected
        IN /\ (moved /\ selected < ps0) => pageStart = selected
           /\ (moved /\ selected > ps0 + pageSize - 1) =>
                pageStart = selected - (pageSize - 1)
           /\ (ps0 <= selected /\ selected <= ps0 + pageSize - 1) =>
                pageStart = ps0
    /\ (/\ lastMsg.kind = "down"
        /\ pageSize = 2
        /\ Len(metricsList) = 5
        /\ lastMsg.selected = 3
        /\ selected = 4) => pageStart = 3

\* the last of the down events from row 0 to row 4: the window [2,3] slides
\* to [3,4]
C14_Witness ==
    /\ lastMsg.kind = "down"
    /\ pageSize = 2
    /\ Len(metricsList) = 5
    /\ lastMsg.selected = 3
    /\ lastMsg.pageStart = 2
    /\ selected = 4
    /\ pageStart = 3

\* C15: a successful batch that leaves the list shorter than selected + 1
\* moves the selected index to length - 1, and a batch that leaves the
\* selected index below the new length does not change it; a five-row list
\* with selection 4 that loses its last two rows ends with selection 2.
C15_SelectionClamp ==
    /\ lastMsg.kind = "ok" =>
        /\ Len(metricsList) < lastMsg.selected + 1 =>
                selected = Len(metricsList) - 1
        /\ lastMsg.selected < Len(metricsList) =>
                selected = lastMsg.selected
    /\ (/\ lastMsg.kind = "ok"
        /\ lastMsg.len = 5
        /\ lastMsg.selected = 4
        /\ Len(metricsList) = 3) => selected = 2

C15_Witness ==
    /\ lastMsg.kind = "ok"
    /\ lastMsg.len = 5
    /\ lastMsg.selected = 4
    /\ Len(metricsList) = 3
    /\ ListKeys = {SeriesKey(sFoo, lblPathNth(i)) : i \in 1..3}
    /\ selected = 2

\* C16: a failed scrape result leaves the list, the lookup, every entry,
\* the selected index and pageStart as they were, records the error and
\* arms exactly one timer for the next tick.
C16_FailureKeepsView ==
    [][lastMsg'.kind = "err" =>
            /\ metricsList' = metricsList
            /\ metricsIndex' = metricsIndex
            /\ initialized' = initialized
            /\ selected' = selected
            /\ pageStart' = pageStart
            /\ err' = "error"
            /\ ticks' = ticks + 1
            /\ inFlight' = inFlight - 1]_vars

\* a failure handled while a later row of a populated list is selected
C16_Witness ==
    /\ lastMsg.kind = "err"
    /\ err = "error"
    /\ served > 0
    /\ Len(metricsList) > 1
    /\ selected > 0
    /\ selected = lastMsg.selected
    /\ ticks > 0

\* the keys of the samples of the latest batch, in the order of the two loops
BatchKeySeq ==
    LET ss == Samples(lastFamilies)
    IN [i \in 1..Len(ss) |-> SeriesKey(ss[i].name, ss[i].pm.label)]

\* the keys of the list, in list order
ListKeySeq == [i \in 1..Len(metricsList) |-> metricsList[i].key]

\* C17: right after the first successful batch the list is in ascending
\* (name, label string) order: of two adjacent entries the earlier has the
\* smaller name, or the same name and a label string that is not greater.
C17_SortedAfterFirst ==
    (served = 1 /\ lastMsg.kind = "ok") =>
        \A i \in 1..(Len(metricsList) - 1) :
            LET x == metricsList[i]
                y == metricsList[i + 1]
            IN \/ StrLess(x.name, y.name)
               \/ (x.name = y.name /\ ~StrLess(y.labels, x.labels))

\* a first batch whose iteration order is not the sorted order: the list
\* has the accepted series of the batch in another order than the batch
C17_Witness ==
    /\ served = 1
    /\ lastMsg.kind = "ok"
    /\ Len(metricsList) >= 2
    /\ SelectSeq(BatchKeySeq, LAMBDA k : k \in ListKeys) # ListKeySeq
    /\ \E i \in 1..(Len(metricsList) - 1) :
            metricsList[i].name # metricsList[i + 1].name

KeysOf(list) == [i \in 1..Len(list) |-> list[i].key]
KeySet(list) == {list[i].key : i \in 1..Len(list)}

\* the order of the list new against the list old it was rebuilt from: the
\* keys of both are in the same relative order, and no key of old comes
\* after a key that old did not have
OrderKept(old, new) ==
    /\ SelectSeq(KeysOf(old), LAMBDA k : k \in KeySet(new))
         = SelectSeq(KeysOf(new), LAMBDA k : k \in KeySet(old))
    /\ \A i, j \in 1..Len(new) :
         (new[i].key \notin KeySet(old) /\ new[j].key \in KeySet(old)) => j < i

\* C18: a successful batch after the first does not sort the list again: the
\* series that survive it keep their relative order, and every series first
\* seen in it is placed after all of them.
C18_NoResort ==
    [][(lastMsg'.kind = "ok" /\ served >= 1) =>
            OrderKept(metricsList, metricsList')]_vars

\* a second batch has brought a series that sorts before a surviving one and
\* was placed after it
C18_Witness ==
    /\ served = 2
    /\ lastMsg.kind = "ok"
    /\ \E r \in PassRecs : r.found
    /\ \E r \in PassRecs :
        /\ ~r.found
        /\ \E i \in 1..Len(metricsList) : \E j \in (i + 1)..Len(metricsList) :
            /\ metricsList[j].key = r.key
            /\ MetricLess(metricsList[j], metricsList[i])

\* sub occurs in s: some stretch s[a..b] of s is sub
Occurs(sub, s) ==
    \E a \in 1..(Len(s) + 1) : \E b \in 0..Len(s) : SubSeq(s, a, b) = sub

\* the names of the families of the latest batch, and the names of the
\* examples
BatchNames == {lastFamilies[i].name : i \in 1..Len(lastFamilies)}
ExampleNames == {sFoo, sBar, sBaz, sFoobar, sRequestsTotal, <<>>}

\* C19: the name filter accepts a name iff (there is no include or the name
\* contains one of the includes) and the name contains none of the excludes;
\* include foo with exclude bar rejects foobar and accepts foo, exclude bar
\* alone accepts baz; and a batch leaves an entry for a family only if its
\* name is accepted.
C19_NameFilter ==
    /\ \A n \in BatchNames \cup ExampleNames :
        passNameFilters(n) <=>
            /\ (includes = <<>>
                  \/ \E i \in 1..Len(includes) : Occurs(includes[i], n))
            /\ ~\E j \in 1..Len(excludes) : Occurs(excludes[j], n)
    /\ (includes = <<sFoo>> /\ excludes = <<sBar>>) =>
            (~passNameFilters(sFoobar) /\ passNameFilters(sFoo))
    /\ (includes = <<>> /\ excludes = <<sBar>>) => passNameFilters(sBaz)
    /\ \A md \in Entries :
            /\ (includes # <<>> =>
                    \E i \in 1..Len(includes) : Occurs(includes[i], md.name))
            /\ \A j \in 1..Len(excludes) : ~Occurs(excludes[j], md.name)

\* include foo, exclude bar: a batch with foo and foobar has left foo only
C19_Witness ==
    /\ includes = <<sFoo>>
    /\ excludes = <<sBar>>
    /\ served > 0
    /\ {sFoo, sFoobar} \subseteq BatchNames
    /\ {md.name : md \in Entries} = {sFoo}

\* the label sets of the samples of the latest batch, and of the examples
BatchLabelSets ==
    {Samples(lastFamilies)[i].pm.label : i \in 1..Len(Samples(lastFamilies))}
ExampleLabelSets == {<<>>, lblPathA, lblPathB, lblZoneBPathA}

\* every constraint is met by a label of lbls with that name and that value
MeetsAll(lbls) ==
    \A i \in 1..Len(labelFilters) :
        \E k \in 1..Len(lbls) :
            /\ lbls[k].name = labelFilters[i].name
            /\ lbls[k].value = labelFilters[i].value

\* C20: the label filter accepts a sample iff every configured constraint is
\* met by a label of the sample with exactly that name and that value; no
\* constraint accepts every sample; and a batch leaves an entry for a sample
\* only if the sample meets every constraint.
C20_LabelFilter ==
    /\ \A lbls \in BatchLabelSets \cup ExampleLabelSets :
        /\ passLabelFilters(lbls) <=> MeetsAll(lbls)
        /\ labelFilters = <<>> => passLabelFilters(lbls)
    /\ served > 0 =>
        \A i \in 1..Len(Samples(lastFamilies)) :
            LET s == Samples(lastFamilies)[i]
            IN SeriesKey(s.name, s.pm.label) \in ListKeys => MeetsAll(s.pm.label)

\* path=a and zone=b are required: of a batch with foo{path="a"} (zone is
\* missing), baz{path="b"} (path differs) and bar{zone="b",path="a"}, only
\* the last has an entry
C20_Witness ==
    /\ Len(labelFilters) = 2
    /\ served > 0
    /\ {lblPathA, lblPathB, lblZoneBPathA} \subseteq BatchLabelSets
    /\ ListKeys = {SeriesKey(sBar, lblZoneBPathA)}

\* the label pairs of the examples, and every ordering of every subset
ExamplePairs ==
    {LabelPair(sA, <<49>>), LabelPair(sB, <<50>>), LabelPair(sPath, sA)}
Orderings(T) ==
    { f \in [1..Cardinality(T) -> T] :
        \A i, j \in 1..Cardinality(T) : f[i] = f[j] => i = j }
PairSet(lbls) == {lbls[i] : i \in 1..Len(lbls)}

\* C21: the key and the label string do not depend on the order in which the
\* labels are given: two orderings of one set of label pairs give the same
\* key and the same label string, no labels give the empty string for both,
\* and two samples of a batch with one name and one label set have one key
\* and one entry.
C21_KeyOrderFree ==
    /\ \A T \in SUBSET ExamplePairs :
        /\ Cardinality({renderLabels(p) : p \in Orderings(T)}) = 1
        /\ Cardinality({SeriesKey(sFoo, p) : p \in Orderings(T)}) = 1
    /\ renderLabels(<<>>) = [display |-> <<>>, key |-> <<>>]
    /\ SeriesKey(sFoo, <<LabelPair(sB, <<50>>), LabelPair(sA, <<49>>)>>)
         = SeriesKey(sFoo, <<LabelPair(sA, <<49>>), LabelPair(sB, <<50>>)>>)
    /\ \A i, j \in 1..Len(Samples(lastFamilies)) :
        LET s == Samples(lastFamilies)[i]
            t == Samples(lastFamilies)[j]
        IN (s.name = t.name /\ PairSet(s.pm.label) = PairSet(t.pm.label)) =>
            /\ SeriesKey(s.name, s.pm.label) = SeriesKey(t.name, t.pm.label)
            /\ Cardinality({md \in Entries :
                              md.key = SeriesKey(s.name, s.pm.label)}) = 1

\* a first batch gave zone="b",path="a" and then path="a",zone="b": there is
\* one entry, and it has taken both samples
C21_Witness ==
    /\ served = 1
    /\ Len(lastFamilies) = 1
    /\ lastFamilies[1].metric[1].label = lblZoneBPathA
    /\ lastFamilies[1].metric[2].label = lblPathAZoneB
    /\ Len(metricsList) = 1
    /\ Len(metricsList[1].history) = 2

\* C22: no two entries of the list have the same key, in every state: after
\* a batch that has a key more than once, and after the one-time sort.
C22_UniqueKeys ==
    \A i, j \in 1..Len(metricsList) :
        metricsList[i].key = metricsList[j].key => i = j

\* the first batch was sorted and left two entries; the second has one key
\* twice and has left one entry
C22_Witness ==
    /\ served = 2
    /\ lastMsg.kind = "ok"
    /\ lastMsg.len = 2
    /\ Len(lastFamilies) = 1
    /\ lastFamilies[1].metric[1].label = lblZoneBPathA
    /\ lastFamilies[1].metric[2].label = lblPathAZoneB
    /\ Len(metricsList) = 1

\* the entry of list that has key k
EntryOf(list, k) == list[CHOOSE i \in 1..Len(list) : list[i].key = k]

\* C23: the counter flag of a series is the one it was created with for as
\* long as the series stays in the list: no step changes the flag of a key
\* that is in the list before and after it, and a sample leaves the flag of
\* the entry it is applied to as it was, whatever kind the sample has.
C23_KindFixed ==
    [][/\ \A k \in KeySet(metricsList) \cap KeySet(metricsList') :
            EntryOf(metricsList', k).isCounter = EntryOf(metricsList, k).isCounter
       /\ \A j \in 1..Len(pass') :
            pass'[j].after.isCounter = pass'[j].before.isCounter]_vars

\* a series created as a counter has been reported as a gauge and is still
\* a counter
C23_Witness ==
    /\ served >= 2
    /\ lastMsg.kind = "ok"
    /\ \E r \in PassRecs : \E md \in Entries :
        /\ r.found
        /\ r.type = "GAUGE"
        /\ r.before.isCounter
        /\ md.key = r.key
        /\ md.isCounter

\* C24: ticks do not wait for scrapes: when a tick has been handled a timer
\* is armed for a later tick, so that the later tick is delivered even if no
\* scrape result is delivered first.
C24_TickRearmed ==
    (lastMsg.kind = "tick" /\ ~quit) => ticks > 0

\* C25: no scrape stays in flight for ever: unless the user quits, two
\* scrapes in flight do not stay two for ever, and a state with a scrape in
\* flight leads to a state in which the message handled last is a scrape
\* result.
C25_ScrapeCompletes ==
    /\ (inFlight = 2 /\ ~quit) ~> (inFlight < 2 \/ quit)
    /\ (inFlight > 0 /\ ~quit) ~> (lastMsg.kind \in {"ok", "err"} \/ quit)

\* C26: scrapes are not kept to one at a time, and a result is reconciled
\* against the state that exists when it is delivered, whichever scrape it
\* comes from: at most two scrapes are in flight, and every sample of a
\* delivered batch is looked up in the lookup as it is at delivery and
\* applied to the entry that the list has at the position found.
C26_DeliveryOrder ==
    [][lastMsg'.kind = "ok" =>
            /\ inFlight \in 1..2
            /\ lastMsg'.flight \in 1..inFlight
            /\ \A j \in 1..Len(pass') :
                LET r == pass'[j]
                IN /\ r.found <=> r.key \in DOMAIN metricsIndex
                   /\ r.found =>
                        /\ r.idx = metricsIndex[r.key]
                        /\ r.before = metricsList[r.idx + 1]]_vars

\* of two scrapes in flight the one issued later has delivered its batch,
\* which met the entries of an earlier batch, and the one issued first is
\* still in flight
C26_Witness ==
    /\ lastMsg.kind = "ok"
    /\ lastMsg.flight = 2
    /\ inFlight = 1
    /\ served >= 2
    /\ \E r \in PassRecs : r.found /\ r.idx > 0

\* arg has no "="
NoEq(arg) == \A k \in 1..Len(arg) : arg[k] # 61

\* C27: a --labels argument without "=" is fatal at startup: the event loop
\* is not started, no scrape is issued, no timer is armed and no message is
\* ever handled; when every argument has a "=" the program starts with the
\* constraints name=value of its arguments.
C27_BadLabelsFatal ==
    /\ (\E i \in 1..Len(labelArgs) : NoEq(labelArgs[i])) =>
        /\ ~started
        /\ inFlight = 0
        /\ ticks = 0
        /\ served = 0
        /\ lastMsg.kind = "none"
        /\ metricsList = <<>>
        /\ err = "nil"
    /\ (\A i \in 1..Len(labelArgs) : ~NoEq(labelArgs[i])) =>
        /\ started
        /\ Len(labelFilters) = Len(labelArgs)
        /\ \A i \in 1..Len(labelArgs) :
            labelFilters[i].name \o <<61>> \o labelFilters[i].value
                = labelArgs[i]

\* --labels path=a,zone: the second argument has no "="
C27_Witness ==
    /\ labelArgs = <<argPathA, sZone>>
    /\ ~started
    /\ inFlight = 0
    /\ ticks = 0

\* C28: only a successful scrape result changes the series: a step that
\* handles a tick, a failed result or a key (up, down, page-up, page-down,
\* quit or any other) leaves the list with every field of every entry, and
\* the lookup, as they were.
C28_OnlyBatchesMutate ==
    [][lastMsg'.kind # "ok" =>
            /\ metricsList' = metricsList
            /\ metricsIndex' = metricsIndex
            /\ initialized' = initialized]_vars

\* a key without a binding was pressed while the list held a series with two
\* samples of history
C28_Witness ==
    /\ lastMsg.kind = "key"
    /\ Len(metricsList) > 0
    /\ \E md \in Entries : Len(md.history) >= 2

\* C29: after a successful batch every entry has a history that is not
\* empty and ends with the value the entry displays: accumVal for a counter,
\* gaugeVal for any other kind; so the selected entry has data to graph.
C29_HistoryEndsWithCurrent ==
    \A md \in Entries :
        /\ Len(md.history) > 0
        /\ md.history[Len(md.history)]
             = IF md.isCounter THEN md.accumVal ELSE md.gaugeVal

\* the selected entry is a counter whose total has grown; its history ends
\* with the total
C29_Witness ==
    /\ lastMsg.kind = "ok"
    /\ selected \in 0..(Len(metricsList) - 1)
    /\ LET md == metricsList[selected + 1]
       IN /\ md.isCounter
          /\ md.accumVal > 0
          /\ Len(md.history) >= 2
          /\ md.history[Len(md.history)] = md.accumVal

\* C30: while the program runs, the timers armed and the scrapes in flight
\* are two together: Init starts one of each, a tick is replaced by one
\* scrape and a scrape result by one timer; so no more than two scrapes are
\* in flight.
C30_TwoChains ==
    (started /\ ~quit) =>
        /\ ticks + inFlight = 2
        /\ ticks \in 0..2
        /\ inFlight \in 0..2

\* after a successful and a failed result both chains are scrapes in flight
C30_Witness ==
    /\ ~quit
    /\ served > 0
    /\ err = "error"
    /\ inFlight = 2
    /\ ticks = 0

\* C31: the recorded scrape error is sticky: once a failed scrape has set
\* it no later message clears it, a later successful batch included, and
\* until the program quits the view is the error screen, not the table.
C31_ErrorSticky ==
    [][err = "error" =>
         /\ err' = "error"
         /\ ~quit' => View' = "error"]_vars

\* a successful batch has been applied after a failure: the table has rows
\* that this batch reconciled, and the error is still shown
C31_Witness ==
    /\ err = "error"
    /\ lastMsg.kind = "ok"
    /\ Len(metricsList) > 0
    /\ Len(pass) > 0
    /\ \E r \in PassRecs : r.after \in Entries
    /\ View = "error"

C33_PageStartValid ==
    /\ 0 <= pageStart
    /\ Len(metricsList) > 0 => pageStart <= Len(metricsList) - 1
    /\ Len(metricsList) = 0 => pageStart = 0
    /\ 0 <= PageSlice.start
    /\ PageSlice.start <= PageSlice.end
    /\ PageSlice.end <= Len(metricsList)
    /\ View = "table" =>
         /\ PageSlice.start + 1 <= PageSlice.end
         /\ PageSlice.end <= Len(metricsList)

\* a batch has shrunk the list to fewer rows than the window's offset, and
\* the window is back on the last row; the table is on screen
C33_Witness ==
    /\ lastMsg.kind = "ok"
    /\ Len(metricsList) > 0
    /\ lastMsg.pageStart >= Len(metricsList)
    /\ pageStart = Len(metricsList) - 1
    /\ View = "table"

\* C34: in every reconciliation pass, every position the key->index lookup
\* gives (and the position recorded for a new entry) is a position of the
\* list at that moment, 0 <= idx < length, whatever batches came before; no
\* pass stops at an index out of range, and the lookup a pass leaves behind
\* holds only positions of the list it leaves behind.
C34_LookupInRange ==
    /\ \A j \in 1..Len(pass) :
        /\ 0 <= pass[j].idx
        /\ pass[j].idx < pass[j].len
        /\ pass[j].before # NoMetric
    /\ \A k \in DOMAIN metricsIndex :
        /\ 0 <= metricsIndex[k]
        /\ metricsIndex[k] < Len(metricsList)

\* the pass after the one-time sort: the lookup gave, for a key, the
\* position of another entry, the last one of the list
C34_Witness ==
    /\ lastMsg.kind = "ok"
    /\ \E r \in PassRecs :
        /\ r.found
        /\ r.before.key # r.key
        /\ r.idx = r.len - 1
        /\ r.idx > 0

====
